---- MODULE Spec2Model ----
(***************************************************************************)
(* Turtle's adventure: the player walks to the clicked waypoint, enemies   *)
(* are spawned by a timer and end the game when they touch the player,     *)
(* reaching Home wins.                                                     *)
(*                                                                         *)
(* Lengths are fixed-point numbers in tenths of a pixel (Px(1) = 10), so   *)
(* that size / 2 of the odd enemy size 15 and the trigonometric steps are  *)
(* representable; angles are whole degrees as random.randint draws them.   *)
(***************************************************************************)
EXTENDS Integers, Sequences, FiniteSets, TLC

VARIABLES
    screen_width,         \* TurtleAdventureGame.screen_width  (pixels)
    screen_height,        \* TurtleAdventureGame.screen_height (pixels)
    running,              \* Game: the animation loop is running (start/stop)
    texts,                \* canvas texts created by game_over_win / game_over_lose
    waypoint,             \* [active, x, y]
    home,                 \* [x, y, size]
    player,               \* [x, y, speed]
    elements,             \* Game's element list, in the order of add_element
    enemies,              \* TurtleAdventureGame.enemies (filled by add_enemy only)
    fencing_enemy_count,  \* EnemyGenerator.__fencing_enemy_count
    sin_enemy_count,      \* EnemyGenerator.__sin_enemy_count
    timer,                \* a call of create_enemy is scheduled with after()
    ticks,                \* history: passes of the animation loop so far
    batches,              \* history: calls of create_enemy so far
    clicks,               \* history: clicks so far
    nav                   \* history: [x0, y0, n] the player's position at the last
                          \* activation and the Player updates since then

vars == <<screen_width, screen_height, running, texts, waypoint, home, player,
          elements, enemies, fencing_enemy_count, sin_enemy_count, timer,
          ticks, batches, clicks, nav>>

----------------------------------------------------------------------------
(* Bounds of the model *)

MaxTicks == 4

MaxClicks == 1

RandBatches == 1

TickBatches == 2

NavTicks == 133

ProbeTicks == 245

RaceTicks == 8

----------------------------------------------------------------------------
(* Arithmetic *)

Px(n) == 10 * n

Abs(n) == IF n < 0 THEN -n ELSE n

Max(a, b) == IF a >= b THEN a ELSE b

\* division rounded to the nearest integer, d > 0
RoundDiv(n, d) == IF n >= 0 THEN (2 * n + d) \div (2 * d)
                  ELSE -((2 * (-n) + d) \div (2 * d))

RECURSIVE SqrtSearch(_, _, _)
SqrtSearch(n, lo, hi) ==
    IF lo >= hi THEN lo
    ELSE LET mid == (lo + hi + 1) \div 2
         IN  IF mid * mid <= n THEN SqrtSearch(n, mid, hi)
             ELSE SqrtSearch(n, lo, mid - 1)

\* floor of the square root, n < 2^31
Isqrt(n) == SqrtSearch(n, 0, 46340)

\* 1000 * cos(d degrees) for d in 0..90
CosTable ==
    <<1000,1000,999,999,998,996,995,993,990,988,985,982,978,974,970,966,961,
      956,951,946,940,934,927,921,914,906,899,891,883,875,866,857,848,839,829,
      819,809,799,788,777,766,755,743,731,719,707,695,682,669,656,643,629,616,
      602,588,574,559,545,530,515,500,485,469,454,438,423,407,391,375,358,342,
      326,309,292,276,259,242,225,208,191,174,156,139,122,105,87,70,52,35,17,0>>

\* math.cos(math.radians(d)), times 1000
Cos1000(d) ==
    LET a == d % 360
    IN  IF a <= 90 THEN CosTable[a + 1]
        ELSE IF a <= 180 THEN -CosTable[180 - a + 1]
        ELSE IF a <= 270 THEN -CosTable[a - 180 + 1]
        ELSE CosTable[360 - a + 1]

\* math.sin(math.radians(d)), times 1000
Sin1000(d) == Cos1000(d - 90)

\* amplitude * math.sin(0.02 * x) for amplitude 50, x in tenths of a pixel,
\* the result in tenths of a pixel (Bhaskara's rational approximation of the
\* sine over the half period 157 = pi / 0.02)
SinWave(x) ==
    LET t == (x \div 10) % 314
        u == IF t < 157 THEN t ELSE t - 157
        p == u * (157 - u)
        v == RoundDiv(8000 * p, 123245 - 4 * p)
    IN  IF t < 157 THEN v ELSE -v

\* the displacement of length s from the origin towards (dx, dy), as
\* (cos(a) * s, sin(a) * s) with a = atan2(dy, dx); atan2(0, 0) is 0
StepToward(dx, dy, s) ==
    IF dx = 0 /\ dy = 0 THEN <<s, 0>>
    ELSE LET m == Max(Abs(dx), Abs(dy))
             k == IF m <= 300 THEN 100 ELSE IF m <= 3000 THEN 10 ELSE 1
             d == Isqrt((k * dx) * (k * dx) + (k * dy) * (k * dy))
         IN  <<RoundDiv(s * k * dx, d), RoundDiv(s * k * dy, d)>>

----------------------------------------------------------------------------
(* Game elements *)

\* the entry of a game element in the element list; the state of the
\* waypoint, of Home and of the player is kept in the variables
Element(kind, x, y, size, speed, direction) ==
    [kind |-> kind, x |-> x, y |-> y, size |-> size, speed |-> speed,
     direction |-> direction]

EnemyKinds ==
    {"DemoEnemy", "RandomWalkEnemy", "ChasingEnemy", "FencingEnemy", "SinEnemy"}

HOME_OFFSET == Px(20)

\* FencingEnemy.__directions: right, down, left, up
Directions == <<<<1, 0>>, <<0, 1>>, <<-1, 0>>, <<0, -1>>>>

\* Home.contains with the boundary excluded
contains_open(h, x, y) ==
    /\ h.x - h.size \div 2 < x /\ x < h.x + h.size \div 2
    /\ h.y - h.size \div 2 < y /\ y < h.y + h.size \div 2

\* Home.contains
contains(h, x, y) ==
    /\ h.x - h.size \div 2 <= x /\ x <= h.x + h.size \div 2
    /\ h.y - h.size \div 2 <= y /\ y <= h.y + h.size \div 2

\* Enemy.hits_player with the left edge included
hits_player_closed(e, p) ==
    /\ e.x - e.size \div 2 <= p.x /\ p.x < e.x + e.size \div 2
    /\ e.y - e.size \div 2 < p.y /\ p.y < e.y + e.size \div 2

\* Enemy.hits_player
hits_player(e, p) ==
    /\ e.x - e.size \div 2 < p.x /\ p.x < e.x + e.size \div 2
    /\ e.y - e.size \div 2 < p.y /\ p.y < e.y + e.size \div 2

\* Game.stop
stop(s) == [s EXCEPT !.running = FALSE]

\* TurtleAdventureGame.game_over_win
game_over_win(s) == [stop(s) EXCEPT !.texts = Append(@, "You Win")]

\* TurtleAdventureGame.game_over_lose
game_over_lose(s) == [stop(s) EXCEPT !.texts = Append(@, "You Lose")]

\* Waypoint.deactivate
deactivate(w) == [w EXCEPT !.active = FALSE]

\* Waypoint.activate
activate(w, x, y) == [w EXCEPT !.active = TRUE, !.x = x, !.y = y]

\* Player.update that deactivates the waypoint at a distance of one step too
Player_update_le(s) ==
    LET s1 == IF contains(home, s.player.x, s.player.y)
              THEN game_over_win(s) ELSE s
        p  == s1.player
        w  == s1.waypoint
    IN  IF w.active
        THEN LET d  == StepToward(w.x - p.x, w.y - p.y, p.speed)
                 p2 == [p EXCEPT !.x = @ + d[1], !.y = @ + d[2]]
                 dx == w.x - p2.x
                 dy == w.y - p2.y
             IN  [s1 EXCEPT !.player = p2,
                            !.waypoint = IF dx * dx + dy * dy <= p.speed * p.speed
                                         THEN deactivate(w) ELSE w]
        ELSE s1

\* Player.update that walks on along the x axis while the waypoint is inactive
Player_update_drift(s) ==
    LET s1 == IF contains(home, s.player.x, s.player.y)
              THEN game_over_win(s) ELSE s
        p  == s1.player
        w  == s1.waypoint
    IN  IF w.active
        THEN LET d  == StepToward(w.x - p.x, w.y - p.y, p.speed)
                 p2 == [p EXCEPT !.x = @ + d[1], !.y = @ + d[2]]
                 dx == w.x - p2.x
                 dy == w.y - p2.y
             IN  [s1 EXCEPT !.player = p2,
                            !.waypoint = IF dx * dx + dy * dy < p.speed * p.speed
                                         THEN deactivate(w) ELSE w]
        ELSE [s1 EXCEPT !.player.x = @ + p.speed]

\* Player.update that tests the arrival at Home after the movement
Player_update_after(s) ==
    LET p  == s.player
        w  == s.waypoint
        s1 == IF w.active
              THEN LET d  == StepToward(w.x - p.x, w.y - p.y, p.speed)
                       p2 == [p EXCEPT !.x = @ + d[1], !.y = @ + d[2]]
                       dx == w.x - p2.x
                       dy == w.y - p2.y
                   IN  [s EXCEPT !.player = p2,
                                 !.waypoint = IF dx * dx + dy * dy < p.speed * p.speed
                                              THEN deactivate(w) ELSE w]
              ELSE s
    IN  IF contains(home, s1.player.x, s1.player.y)
        THEN game_over_win(s1) ELSE s1

\* Player.update; s is the session: [running, texts, waypoint, player, elements]
Player_update(s) ==
    LET s1 == IF contains(home, s.player.x, s.player.y)
              THEN game_over_win(s) ELSE s
        p  == s1.player
        w  == s1.waypoint
    IN  IF w.active
        THEN LET d  == StepToward(w.x - p.x, w.y - p.y, p.speed)
                 p2 == [p EXCEPT !.x = @ + d[1], !.y = @ + d[2]]
                 dx == w.x - p2.x
                 dy == w.y - p2.y
             IN  [s1 EXCEPT !.player = p2,
                            !.waypoint = IF dx * dx + dy * dy < p.speed * p.speed
                                         THEN deactivate(w) ELSE w]
        ELSE s1

\* DemoEnemy.update that walks along its direction flag
DemoEnemy_move_bounce(e) ==
    LET x  == e.x + e.direction * Px(1)
        y  == e.y + e.direction * Px(1)
        d1 == IF x >= Px(screen_width) \/ x <= 0
              THEN -e.direction ELSE e.direction
        d2 == IF y >= Px(screen_height) \/ y <= 0 THEN -d1 ELSE d1
    IN  [e EXCEPT !.x = x, !.y = y, !.direction = d2]

\* DemoEnemy.update, the motion
DemoEnemy_move(e) ==
    LET x  == e.x + Px(1)
        y  == e.y + Px(1)
        d1 == IF x >= Px(screen_width) \/ x <= 0
              THEN -e.direction ELSE e.direction
        d2 == IF y >= Px(screen_height) \/ y <= 0 THEN -d1 ELSE d1
    IN  [e EXCEPT !.x = x, !.y = y, !.direction = d2]

\* RandomWalkEnemy.update that reflects at the left and right edge as at the
\* top and bottom edge
RandomWalkEnemy_move_negate(e) ==
    LET W  == Px(screen_width)
        H  == Px(screen_height)
        r  == e.size \div 2
        x  == e.x + RoundDiv(e.speed * Cos1000(e.direction), 1000)
        y  == e.y + RoundDiv(e.speed * Sin1000(e.direction), 1000)
        hx == x + r >= W \/ x - r <= 0
        d1 == IF hx THEN -e.direction ELSE e.direction
        x1 == IF x + r >= W THEN W - r ELSE IF x - r <= 0 THEN r ELSE x
        hy == y + r >= H \/ y - r <= 0
        d2 == IF hy THEN -d1 ELSE d1
        y1 == IF y + r >= H THEN H - r ELSE IF y - r <= 0 THEN r ELSE y
    IN  [e EXCEPT !.x = x1, !.y = y1, !.direction = d2]

\* RandomWalkEnemy.update, the motion
RandomWalkEnemy_move(e) ==
    LET W  == Px(screen_width)
        H  == Px(screen_height)
        r  == e.size \div 2
        x  == e.x + RoundDiv(e.speed * Cos1000(e.direction), 1000)
        y  == e.y + RoundDiv(e.speed * Sin1000(e.direction), 1000)
        hx == x + r >= W \/ x - r <= 0
        d1 == IF hx THEN 180 - e.direction ELSE e.direction
        x1 == IF x + r >= W THEN W - r ELSE IF x - r <= 0 THEN r ELSE x
        hy == y + r >= H \/ y - r <= 0
        d2 == IF hy THEN -d1 ELSE d1
        y1 == IF y + r >= H THEN H - r ELSE IF y - r <= 0 THEN r ELSE y
    IN  [e EXCEPT !.x = x1, !.y = y1, !.direction = d2]

\* ChasingEnemy.update with the bearing from the player to the enemy
ChasingEnemy_move_away(e, p) ==
    LET W == Px(screen_width)
        H == Px(screen_height)
        r == e.size \div 2
        d == StepToward(e.x - p.x, e.y - p.y, e.speed)
        x == e.x + d[1]
        y == e.y + d[2]
        x1 == IF x - r < 0 THEN r ELSE IF x + r > W THEN W - r ELSE x
        y1 == IF y - r < 0 THEN r ELSE IF y + r > H THEN H - r ELSE y
    IN  [e EXCEPT !.x = x1, !.y = y1]

\* ChasingEnemy.update, the motion
ChasingEnemy_move(e, p) ==
    LET W == Px(screen_width)
        H == Px(screen_height)
        r == e.size \div 2
        d == StepToward(p.x - e.x, p.y - e.y, e.speed)
        x == e.x + d[1]
        y == e.y + d[2]
        x1 == IF x - r < 0 THEN r ELSE IF x + r > W THEN W - r ELSE x
        y1 == IF y - r < 0 THEN r ELSE IF y + r > H THEN H - r ELSE y
    IN  [e EXCEPT !.x = x1, !.y = y1]

\* FencingEnemy.update that turns at an edge whatever the direction
FencingEnemy_move_anyedge(e) ==
    LET offset == HOME_OFFSET + home.size \div 2
        dx == Directions[e.direction + 1][1]
        dy == Directions[e.direction + 1][2]
        x  == e.x + dx * e.speed
        y  == e.y + dy * e.speed
        turn == \/ x >= home.x + offset
                \/ x <= home.x - offset
                \/ y >= home.y + offset
                \/ y <= home.y - offset
    IN  [e EXCEPT !.x = x, !.y = y,
                  !.direction = IF turn THEN (@ + 1) % 4 ELSE @]

\* FencingEnemy.update, the motion; direction is __current_direction_index
FencingEnemy_move(e) ==
    LET offset == HOME_OFFSET + home.size \div 2
        dx == Directions[e.direction + 1][1]
        dy == Directions[e.direction + 1][2]
        x  == e.x + dx * e.speed
        y  == e.y + dy * e.speed
        turn == \/ x >= home.x + offset /\ dx = 1
                \/ x <= home.x - offset /\ dx = -1
                \/ y >= home.y + offset /\ dy = 1
                \/ y <= home.y - offset /\ dy = -1
    IN  [e EXCEPT !.x = x, !.y = y,
                  !.direction = IF turn THEN (@ + 1) % 4 ELSE @]

\* SinEnemy.update that does not clamp y at the bottom edge
SinEnemy_move_noclamp(e) ==
    LET W == Px(screen_width)
        H == Px(screen_height)
        r == e.size \div 2
        x == e.x + e.speed
        y == e.y + SinWave(x)
        bounce == x - r < 0 \/ x + r > W
        x1 == IF x - r < 0 THEN r ELSE IF x + r > W THEN W - r ELSE x
        y1 == IF y - r < 0 THEN r ELSE y
    IN  [e EXCEPT !.x = x1, !.y = y1, !.speed = IF bounce THEN -@ ELSE @]

\* SinEnemy.update that inverts the speed at the top and bottom edge too
SinEnemy_move_bounce_y(e) ==
    LET W == Px(screen_width)
        H == Px(screen_height)
        r == e.size \div 2
        x == e.x + e.speed
        y == e.y + SinWave(x)
        bounce == x - r < 0 \/ x + r > W \/ y - r < 0 \/ y + r > H
        x1 == IF x - r < 0 THEN r ELSE IF x + r > W THEN W - r ELSE x
        y1 == IF y - r < 0 THEN r ELSE IF y + r > H THEN H - r ELSE y
    IN  [e EXCEPT !.x = x1, !.y = y1, !.speed = IF bounce THEN -@ ELSE @]

\* SinEnemy.update, the motion; speed is the signed __speed
SinEnemy_move(e) ==
    LET W == Px(screen_width)
        H == Px(screen_height)
        r == e.size \div 2
        x == e.x + e.speed
        y == e.y + SinWave(x)
        bounce == x - r < 0 \/ x + r > W
        x1 == IF x - r < 0 THEN r ELSE IF x + r > W THEN W - r ELSE x
        y1 == IF y - r < 0 THEN r ELSE IF y + r > H THEN H - r ELSE y
    IN  [e EXCEPT !.x = x1, !.y = y1, !.speed = IF bounce THEN -@ ELSE @]

\* the motion rule of update() of each enemy class
Enemy_move(e, p) ==
    CASE e.kind = "DemoEnemy"       -> DemoEnemy_move(e)
      [] e.kind = "RandomWalkEnemy" -> RandomWalkEnemy_move(e)
      [] e.kind = "ChasingEnemy"    -> ChasingEnemy_move(e, p)
      [] e.kind = "FencingEnemy"    -> FencingEnemy_move(e)
      [] e.kind = "SinEnemy"        -> SinEnemy_move(e)

\* update() of an enemy: the motion, then the collision test
Enemy_update(s, i) ==
    LET e  == Enemy_move(s.elements[i], s.player)
        s1 == [s EXCEPT !.elements[i] = e]
    IN  IF hits_player(e, s1.player) THEN game_over_lose(s1) ELSE s1

\* update() of the i-th element; Waypoint.update and Home.update do nothing
Element_update(s, i) ==
    LET k == s.elements[i].kind
    IN  IF k = "Player" THEN Player_update(s)
        ELSE IF k \in EnemyKinds THEN Enemy_update(s, i)
        ELSE s

\* Game.update: every element is updated, in the order of the element list
RECURSIVE update(_, _)
update(s, i) ==
    IF i > Len(s.elements) THEN s ELSE update(Element_update(s, i), i + 1)

----------------------------------------------------------------------------
(* The session *)

\* the arenas (screen_width, screen_height) a session is constructed with
Arenas == {<<170, 100>>, <<800, 500>>}

\* the pointer positions of the clicks
ClickPoints == {<<screen_width - 10, screen_height \div 2>>,
                <<screen_width - 110, screen_height \div 2>>,
                <<50, screen_height \div 2>>}

\* samples of the draws random.randint(0, 800), random.randint(0, 500) of a
\* position, of random.randint(0, 360) and of randint(0, screen_width)
RandomWalkPositions == {<<100, 60>>}

RandomWalkDirections == {37}

ChasingPositions == {<<67, 50>>, <<67, 250>>, <<700, 400>>}

SinPositions == {screen_width \div 2}

\* the draws of the first RandBatches batches range over the samples, the
\* later ones take the sample d
Draws(S, d) == IF batches < RandBatches THEN S ELSE {d}

\* the session the update functions work on
Session ==
    [running |-> running, texts |-> texts, waypoint |-> waypoint,
     player |-> player, elements |-> elements]

\* TurtleAdventureGame.__init__, init_game, EnemyGenerator.__init__, Game.start
Init ==
    /\ \E a \in Arenas : screen_width = a[1] /\ screen_height = a[2]
    /\ running = TRUE
    /\ texts = <<>>
    /\ waypoint = [active |-> FALSE, x |-> 0, y |-> 0]
    /\ home = [x |-> Px(screen_width - 100), y |-> Px(screen_height \div 2),
               size |-> Px(20)]
    /\ player = [x |-> Px(50), y |-> Px(screen_height \div 2), speed |-> Px(5)]
    /\ elements = <<Element("Waypoint", 0, 0, 0, 0, 0),
                    Element("Home", 0, 0, 0, 0, 0),
                    Element("Player", 0, 0, 0, 0, 0)>>
    /\ enemies = <<>>
    /\ fencing_enemy_count = 0
    /\ sin_enemy_count = 0
    /\ timer = TRUE
    /\ ticks = 0
    /\ batches = 0
    /\ clicks = 0
    /\ nav = [x0 |-> Px(50), y0 |-> Px(screen_height \div 2), n |-> 0]

\* the handler of <Button-1>: self.waypoint.activate(e.x, e.y)
Click(x, y) ==
    /\ waypoint' = activate(waypoint, Px(x), Px(y))
    /\ clicks' = clicks + 1
    /\ nav' = [x0 |-> player.x, y0 |-> player.y, n |-> 0]
    /\ UNCHANGED <<screen_width, screen_height, running, texts, home, player,
                   elements, enemies, fencing_enemy_count, sin_enemy_count,
                   timer, ticks, batches>>

\* Game.animate: one pass of the animation loop
animate ==
    /\ running
    /\ LET s == update(Session, 1)
       IN  /\ running' = s.running
           /\ texts' = s.texts
           /\ waypoint' = s.waypoint
           /\ player' = s.player
           /\ elements' = s.elements
    /\ ticks' = ticks + 1
    /\ nav' = [nav EXCEPT !.n = @ + 1]
    /\ UNCHANGED <<screen_width, screen_height, home, enemies,
                   fencing_enemy_count, sin_enemy_count, timer, batches, clicks>>

\* the cap of the FencingEnemy tested with <=
fencing_allowed_le(count) == count <= 7

\* create_enemy: if self.__fencing_enemy_count < 7
fencing_allowed(count) == count < 7

\* the cap of the SinEnemy off by one
sin_allowed_9(count) == count < 9

\* create_enemy: if self.__sin_enemy_count < 10
sin_allowed(count) == count < 10

\* EnemyGenerator.create_enemy, run by the timer
create_enemy ==
    /\ timer
    /\ \E rw \in RandomWalkPositions, dir \in RandomWalkDirections,
          ch \in Draws(ChasingPositions, <<67, screen_height \div 2>>),
          sx \in SinPositions :
         LET new_enemy == Element("DemoEnemy", Px(100), Px(100), Px(20), Px(1), 1)
             randomwalk_enemy ==
                 Element("RandomWalkEnemy", Px(rw[1]), Px(rw[2]), Px(15), Px(3), dir)
             chasing_enemy ==
                 Element("ChasingEnemy", Px(ch[1]), Px(ch[2]), Px(30), Px(2), 0)
             fencing_enemy ==
                 Element("FencingEnemy", home.x, home.y, Px(10), Px(1), 0)
             sin_enemy ==
                 Element("SinEnemy", Px(sx), Px(screen_height) \div 4, Px(20), Px(1), 0)
             e3 == elements \o <<new_enemy, randomwalk_enemy, chasing_enemy>>
             e4 == IF fencing_allowed(fencing_enemy_count)
                   THEN Append(e3, fencing_enemy) ELSE e3
             e5 == IF sin_allowed(sin_enemy_count)
                   THEN Append(e4, sin_enemy) ELSE e4
         IN  /\ elements' = e5
             /\ fencing_enemy_count' = IF fencing_allowed(fencing_enemy_count)
                                       THEN fencing_enemy_count + 1
                                       ELSE fencing_enemy_count
             /\ sin_enemy_count' = IF sin_allowed(sin_enemy_count)
                                   THEN sin_enemy_count + 1 ELSE sin_enemy_count
             /\ timer' = sin_allowed(sin_enemy_count)
    /\ batches' = batches + 1
    /\ UNCHANGED <<screen_width, screen_height, running, texts, waypoint, home,
                   player, enemies, ticks, clicks, nav>>

ClickAny ==
    /\ clicks < MaxClicks
    /\ \E c \in ClickPoints : Click(c[1], c[2])

\* the passes of the animation loop that are explored: the first MaxTicks,
\* between the first TickBatches batches
Tick == ticks < MaxTicks /\ batches <= TickBatches /\ animate

Next == ClickAny \/ Tick \/ create_enemy

Spec == Init /\ [][Next]_vars

----------------------------------------------------------------------------
(* The navigation of the player alone: one click, the timer of the         *)
(* generator does not fire                                                 *)

\* the pointer positions of the click, relative to the player's start
NavPoints == {<<0, 0>>, <<3, 0>>, <<5, 0>>, <<12, 0>>, <<0, -20>>, <<30, 40>>,
              <<650, 0>>}

InitNav == Init /\ screen_width = 800 /\ screen_height = 500

ClickNav ==
    /\ clicks = 0
    /\ \E c \in NavPoints : Click(50 + c[1], screen_height \div 2 + c[2])

TickNav == ticks < NavTicks /\ animate

NextNav == ClickNav \/ TickNav

SpecNav == InitNav /\ [][NextNav]_vars

----------------------------------------------------------------------------
(* One element at a time: a session with a Home of a given size, the       *)
(* player at a given position and at most one enemy, constructed and added *)
(* with add_element; no click, the timer of the generator does not fire    *)

\* TurtleAdventureGame.add_enemy, on the pair of the two lists
add_enemy(l, enemy) ==
    [enemies |-> Append(l.enemies, enemy), elements |-> Append(l.elements, enemy)]

Scenario(w, h, hs, px, py, es) ==
    [w |-> w, h |-> h, hs |-> hs, px |-> px, py |-> py, es |-> es]

\* FencingEnemy.__init__: the enemy is placed at the start corner
FencingEnemy_init(hx, hy, hs, speed) ==
    Element("FencingEnemy", hx - (HOME_OFFSET + hs \div 2),
            hy - (HOME_OFFSET + hs \div 2), Px(10), speed, 0)

\* a FencingEnemy as constructed, with a speed that divides the side 60
FencingScenarios ==
    {Scenario(800, 500, Px(20), Px(50), Px(250),
              <<FencingEnemy_init(Px(700), Px(250), Px(20), Px(v))>>) :
         v \in {1, 2, 3, 5}}

\* a RandomWalkEnemy at the walls, in the corners, inside and outside
RandomWalkScenarios ==
    {Scenario(800, 500, Px(20), Px(50), Px(250),
              <<Element("RandomWalkEnemy", Px(q[1]), Px(q[2]), Px(15), Px(3), q[3])>>) :
         q \in {<<791, 250, 37>>, <<791, 491, 37>>, <<791, 9, 323>>,
                <<791, 250, 0>>, <<9, 250, 143>>, <<9, 9, 217>>,
                <<400, 491, 90>>, <<400, 250, 200>>, <<900, 600, 37>>,
                <<-20, -20, 217>>}}

\* a ChasingEnemy at the offset q (tenths of a pixel) from the player, and
\* one outside of the arena
ChasingScenarios ==
    {Scenario(800, 500, Px(20), Px(50), Px(250),
              <<Element("ChasingEnemy", Px(50) + q[1], Px(250) + q[2], Px(30),
                        Px(2), 0)>>) :
         q \in {<<0, 0>>, <<5, 0>>, <<10, 0>>, <<12, 0>>, <<9, 12>>, <<0, -20>>,
                <<300, 400>>, <<-300, 400>>, <<1500, 0>>, <<8500, 3000>>,
                <<-900, -3000>>}}

\* a SinEnemy as the generator places it, and one outside of the arena
SinScenarios ==
    {Scenario(a[1], a[2], Px(20), Px(50), Px(a[2] \div 2),
              <<Element("SinEnemy", Px(x), Px(a[2]) \div 4, Px(20), Px(1), 0)>>) :
         a \in {<<800, 500>>, <<170, 130>>}, x \in {0, 85, 170}}
    \cup {Scenario(800, 500, Px(20), Px(50), Px(250),
              <<Element("SinEnemy", Px(-50), Px(-50), Px(20), Px(1), 0)>>)}

\* a DemoEnemy as the generator places it
DemoScenarios ==
    {Scenario(a[1], a[2], Px(20), Px(50), Px(a[2] \div 2),
              <<Element("DemoEnemy", Px(100), Px(100), Px(20), Px(1), 1)>>) :
         a \in {<<170, 130>>, <<300, 200>>}}

\* Home of size hs, the player at the offset q (tenths of a pixel) from its
\* centre; no enemy
HomeOffsets(hs) ==
    {<<0, 0>>, <<hs \div 2, 0>>, <<hs \div 2 + 1, 0>>,
     <<-(hs \div 2), -(hs \div 2)>>, <<0, -(hs \div 2) - 1>>,
     <<hs, 0>>, <<-hs, hs \div 2>>}

HomeScenarios ==
    UNION {{Scenario(800, 500, hs, Px(700) + q[1], Px(250) + q[2], <<>>) :
               q \in HomeOffsets(hs)} : hs \in {0, Px(15), Px(20)}}

\* an enemy of size 0 that moves onto the player's position
ZeroSizeScenarios ==
    {Scenario(800, 500, Px(20), Px(50), Px(250), <<e>>) :
         e \in {Element("ChasingEnemy", Px(52), Px(250), 0, Px(2), 0),
                Element("RandomWalkEnemy", Px(47), Px(250), 0, Px(3), 0)}}

Scenarios ==
    FencingScenarios \cup RandomWalkScenarios \cup ChasingScenarios
      \cup SinScenarios \cup DemoScenarios \cup HomeScenarios
      \cup ZeroSizeScenarios

\* TurtleAdventureGame.__init__ and init_game, then Home.size, Player.x and
\* Player.y are set and the enemy is added
InitProbe ==
    \E sc \in Scenarios :
        /\ screen_width = sc.w
        /\ screen_height = sc.h
        /\ running = TRUE
        /\ texts = <<>>
        /\ waypoint = [active |-> FALSE, x |-> 0, y |-> 0]
        /\ home = [x |-> Px(sc.w - 100), y |-> Px(sc.h \div 2), size |-> sc.hs]
        /\ player = [x |-> sc.px, y |-> sc.py, speed |-> Px(5)]
        /\ elements = <<Element("Waypoint", 0, 0, 0, 0, 0),
                        Element("Home", 0, 0, 0, 0, 0),
                        Element("Player", 0, 0, 0, 0, 0)>> \o sc.es
        /\ enemies = <<>>
        /\ fencing_enemy_count = 0
        /\ sin_enemy_count = 0
        /\ timer = TRUE
        /\ ticks = 0
        /\ batches = 0
        /\ clicks = 0
        /\ nav = [x0 |-> sc.px, y0 |-> sc.py, n |-> 0]

TickProbe == ticks < ProbeTicks /\ animate

NextProbe == TickProbe

SpecProbe == InitProbe /\ [][NextProbe]_vars

----------------------------------------------------------------------------
(* The player walks into Home while an enemy is near: Home of the session  *)
(* of 800x500 at (700, 250), the player placed left of it, one click, at   *)
(* most one enemy, the timer of the generator does not fire                *)

\* the enemies near Home
RaceEnemies ==
    {<<>>,
     <<Element("ChasingEnemy", Px(705), Px(250), Px(30), Px(2), 0)>>,
     <<Element("ChasingEnemy", Px(712), Px(250), Px(30), Px(2), 0)>>,
     <<Element("DemoEnemy", Px(695), Px(245), Px(20), Px(1), 1)>>,
     <<Element("DemoEnemy", Px(700), Px(240), Px(20), Px(1), 1)>>}

\* the player at 30, 20 and 15 pixels left of the centre of Home
RaceScenarios ==
    {Scenario(800, 500, Px(20), Px(x), Px(250), es) :
         x \in {670, 680, 685}, es \in RaceEnemies}

\* the pointer positions of the click: the centre of Home, its left edge and
\* the right wall
RacePoints == {<<700, 250>>, <<690, 250>>, <<800, 250>>}

\* TurtleAdventureGame.__init__ and init_game, then Player.x and Player.y are
\* set and the enemy is added
InitRace ==
    \E sc \in RaceScenarios :
        /\ screen_width = sc.w
        /\ screen_height = sc.h
        /\ running = TRUE
        /\ texts = <<>>
        /\ waypoint = [active |-> FALSE, x |-> 0, y |-> 0]
        /\ home = [x |-> Px(sc.w - 100), y |-> Px(sc.h \div 2), size |-> sc.hs]
        /\ player = [x |-> sc.px, y |-> sc.py, speed |-> Px(5)]
        /\ elements = <<Element("Waypoint", 0, 0, 0, 0, 0),
                        Element("Home", 0, 0, 0, 0, 0),
                        Element("Player", 0, 0, 0, 0, 0)>> \o sc.es
        /\ enemies = <<>>
        /\ fencing_enemy_count = 0
        /\ sin_enemy_count = 0
        /\ timer = TRUE
        /\ ticks = 0
        /\ batches = 0
        /\ clicks = 0
        /\ nav = [x0 |-> sc.px, y0 |-> sc.py, n |-> 0]

ClickRace ==
    /\ clicks = 0
    /\ \E c \in RacePoints : Click(c[1], c[2])

TickRace == ticks < RaceTicks /\ animate

NextRace == ClickRace \/ TickRace

SpecRace == InitRace /\ [][NextRace]_vars

----------------------------------------------------------------------------
(* Vocabulary of the properties *)

IsEnemy(e) == e.kind \in EnemyKinds

Count(seq, v) == Cardinality({i \in DOMAIN seq : seq[i] = v})

CountKind(k) == Cardinality({i \in DOMAIN elements : elements[i].kind = k})

Won == Count(texts, "You Win") > 0

Lost == Count(texts, "You Lose") > 0

\* the point (px, py) lies strictly inside the bounding square of e
StrictlyInside(e, px, py) ==
    /\ 2 * e.x - e.size < 2 * px /\ 2 * px < 2 * e.x + e.size
    /\ 2 * e.y - e.size < 2 * py /\ 2 * py < 2 * e.y + e.size

\* the point (px, py) lies on an edge of the bounding square of e
OnEdge(e, px, py) ==
    /\ 2 * e.x - e.size <= 2 * px /\ 2 * px <= 2 * e.x + e.size
    /\ 2 * e.y - e.size <= 2 * py /\ 2 * py <= 2 * e.y + e.size
    /\ ~StrictlyInside(e, px, py)

\* the point (px, py) lies in Home, the boundary included
InHome(px, py) ==
    /\ 2 * Abs(px - home.x) <= home.size
    /\ 2 * Abs(py - home.y) <= home.size

\* the squared distance of the player to the waypoint
WaypointDist2 ==
    (waypoint.x - player.x) * (waypoint.x - player.x)
      + (waypoint.y - player.y) * (waypoint.y - player.y)

\* the squared distance of the waypoint to the player's position at the click
NavDist2 ==
    (waypoint.x - nav.x0) * (waypoint.x - nav.x0)
      + (waypoint.y - nav.y0) * (waypoint.y - nav.y0)

Arrived == ~waypoint.active /\ WaypointDist2 < player.speed * player.speed

\* n >= ceil(distance(P0, W) / s)
CeilReached(n) == (n * player.speed) * (n * player.speed) >= NavDist2

\* the half side of the patrol square of a FencingEnemy
PatrolOffset == Px(20) + home.size \div 2

OnPatrolPerimeter(e) ==
    \/ Abs(e.x - home.x) = PatrolOffset /\ Abs(e.y - home.y) <= PatrolOffset
    \/ Abs(e.y - home.y) = PatrolOffset /\ Abs(e.x - home.x) <= PatrolOffset

----------------------------------------------------------------------------
(* Properties *)

\* C1: in every pass of the animation loop each enemy, of any class, signals
\* the loss exactly if after its motion the player's position lies strictly
\* inside its bounding square, and nothing else signals a loss.
C1_LossIffStrictlyInside ==
    [][Count(texts', "You Lose") - Count(texts, "You Lose")
         = IF ticks' = ticks + 1
           THEN Cardinality({i \in DOMAIN elements' :
                    /\ IsEnemy(elements'[i])
                    /\ StrictlyInside(elements'[i], player'.x, player'.y)})
           ELSE 0]_vars

\* C1 happens: after a pass the player stands on an edge of an enemy's square
\* and the game is not lost
C1_Witness ==
    /\ ticks > 0
    /\ ~Lost
    /\ \E i \in DOMAIN elements :
         IsEnemy(elements[i]) /\ OnEdge(elements[i], player.x, player.y)

\* C2: an update of the player that finds the player in Home leaves the
\* player's position and the waypoint's active flag unchanged.
C2_NoMoveOnWin ==
    [][(ticks' = ticks + 1 /\ InHome(player.x, player.y))
         => (player' = player /\ waypoint'.active = waypoint.active)]_vars

\* C3 (as stated): the counters never exceed 7 and 10, count the instances
\* added, equal min(7, b) and min(10, b) after b batches, and once 10 batches
\* have run the number of elements no longer grows.
C3_Counters ==
    /\ fencing_enemy_count <= 7
    /\ sin_enemy_count <= 10
    /\ fencing_enemy_count = CountKind("FencingEnemy")
    /\ sin_enemy_count = CountKind("SinEnemy")
    /\ fencing_enemy_count = (IF batches < 7 THEN batches ELSE 7)
    /\ sin_enemy_count = (IF batches < 10 THEN batches ELSE 10)

C3_Original ==
    [][C3_Counters' /\ (batches >= 10 => Len(elements') = Len(elements))]_vars

\* C3 (amended): as C3, but the number of elements stops growing once 11
\* batches have run; the 11th batch adds three more enemies.
C3_SpawnCap ==
    [][/\ C3_Counters'
       /\ batches >= 11 => Len(elements') = Len(elements)
       /\ (batches = 10 /\ batches' = 11) => Len(elements') = Len(elements) + 3
      ]_vars

C3_Witness ==
    /\ batches = 11
    /\ sin_enemy_count = 10
    /\ fencing_enemy_count = 7
    /\ Len(elements) = 53

\* C4 (as stated): no batch starts with sinCount = 10, every batch spawns a
\* SinEnemy, and 10 DemoEnemy, RandomWalkEnemy and ChasingEnemy are spawned.
C4_Original ==
    [][/\ batches' = batches + 1 =>
            /\ sin_enemy_count < 10
            /\ sin_enemy_count' = sin_enemy_count + 1
       /\ ~timer' => /\ CountKind("DemoEnemy")' = 10
                     /\ CountKind("RandomWalkEnemy")' = 10
                     /\ CountKind("ChasingEnemy")' = 10]_vars

\* C4 (amended): a batch that starts with sinCount < 10 spawns a SinEnemy and
\* schedules the next batch; exactly one batch, the 11th, starts with
\* sinCount = 10: it spawns no SinEnemy and schedules nothing, so that 11
\* DemoEnemy, RandomWalkEnemy and ChasingEnemy are spawned.
C4_Batches ==
    [][/\ batches' = batches + 1 =>
            /\ timer
            /\ sin_enemy_count < 10 =>
                 /\ sin_enemy_count' = sin_enemy_count + 1
                 /\ CountKind("SinEnemy")' = CountKind("SinEnemy") + 1
                 /\ timer'
            /\ sin_enemy_count >= 10 =>
                 /\ batches = 10
                 /\ sin_enemy_count' = 10
                 /\ CountKind("SinEnemy")' = CountKind("SinEnemy")
                 /\ ~timer'
            /\ CountKind("DemoEnemy")' = batches'
            /\ CountKind("RandomWalkEnemy")' = batches'
            /\ CountKind("ChasingEnemy")' = batches'
       /\ ~timer' => batches' = 11]_vars

C4_Witness ==
    /\ ~timer
    /\ sin_enemy_count = 10
    /\ CountKind("DemoEnemy") = 11
    /\ CountKind("RandomWalkEnemy") = 11
    /\ CountKind("ChasingEnemy") = 11

\* C5: once game_over_win or game_over_lose has been called, no batch adds an
\* enemy, changes a counter or schedules a batch.
C5_NoSpawnAfterEnd ==
    [][(Won \/ Lost) =>
          /\ elements' = elements
          /\ fencing_enemy_count' = fencing_enemy_count
          /\ sin_enemy_count' = sin_enemy_count
          /\ batches' = batches]_vars

\* C6: the loss is signalled with an effect at most once: there is never a
\* second "You Lose" text.
C6_LoseOnce == Count(texts, "You Lose") <= 1

\* C7: the game is never both won and lost.
C7_WonXorLost == ~(Won /\ Lost)

\* C8 (as stated): after ceil(distance(P0, W) / s) updates of the player
\* following the activation, with no terminal state reached, the waypoint is
\* inactive and the player is closer than s to it.
C8_Original ==
    (clicks = 1 /\ texts = <<>> /\ CeilReached(nav.n)) => Arrived

\* C8 (amended): the same for every waypoint other than the player's own
\* position; a waypoint at the player's position is still active after one
\* update, the player one step away from it, and is reached by the second.
C8_WaypointArrival ==
    (clicks = 1 /\ texts = <<>>) =>
        /\ (NavDist2 > 0 /\ CeilReached(nav.n)) => Arrived
        /\ (NavDist2 = 0 /\ nav.n = 1) =>
              /\ waypoint.active
              /\ WaypointDist2 = player.speed * player.speed
        /\ (NavDist2 = 0 /\ nav.n >= 2) => Arrived

\* C8 happens: a waypoint several steps away has just been reached
C8_Witness ==
    /\ clicks = 1
    /\ texts = <<>>
    /\ NavDist2 > 4 * player.speed * player.speed
    /\ CeilReached(nav.n)
    /\ ~CeilReached(nav.n - 1)
    /\ Arrived

\* the scenario of C9: arena 800 x 500, Home at (700, 250) of size 20, the
\* player at (50, 250) with speed 5 when (700, 250) is clicked
C9_Scenario ==
    /\ screen_width = 800 /\ screen_height = 500
    /\ home = [x |-> Px(700), y |-> Px(250), size |-> Px(20)]
    /\ player.speed = Px(5)
    /\ clicks = 1
    /\ nav.x0 = Px(50) /\ nav.y0 = Px(250)
    /\ waypoint.x = Px(700) /\ waypoint.y = Px(250)

\* C9 (as stated): the game is won after 130 updates of the player, not before.
C9_Original == C9_Scenario => (Won <=> nav.n >= 130)

\* C9 (amended): the game is won by the 129th update of the player, which
\* finds the player at (690, 250) on the boundary of Home, and not before.
C9_EndToEnd == C9_Scenario => (Won <=> nav.n >= 129)

C9_Witness == C9_Scenario /\ Won /\ nav.n = 129 /\ ~Lost

\* C10: every FencingEnemy in the element list is on the perimeter of its
\* patrol square, and a FencingEnemy that has been added and not updated yet
\* is at the start corner (home.x - offset, home.y - offset).
C10_FencingOnPerimeter ==
    \A i \in DOMAIN elements :
        elements[i].kind = "FencingEnemy" =>
            /\ OnPatrolPerimeter(elements[i])
            /\ ticks = 0 => /\ elements[i].x = home.x - PatrolOffset
                            /\ elements[i].y = home.y - PatrolOffset

----------------------------------------------------------------------------
(* Properties of the single elements *)

ElementsOfKind(k) == {i \in DOMAIN elements : elements[i].kind = k}

\* the squared distance of the element e to the point (px, py)
Dist2(e, px, py) == (e.x - px) * (e.x - px) + (e.y - py) * (e.y - py)

\* the bounding square of e lies within the arena
WithinArena(e) ==
    /\ e.size <= 2 * e.x /\ 2 * e.x + e.size <= 2 * Px(screen_width)
    /\ e.size <= 2 * e.y /\ 2 * e.y + e.size <= 2 * Px(screen_height)

\* the position (x, y) in pixels lies in the arena
PositionInArena(x, y) ==
    /\ 0 <= x /\ x <= Px(screen_width)
    /\ 0 <= y /\ y <= Px(screen_height)

\* the state of a FencingEnemy of speed v after n updates from the start
\* corner: [x, y, direction], the side of the patrol square a multiple of v
PatrolState(v, n) ==
    LET side  == 2 * PatrolOffset
        m     == side \div v
        phase == (n % (4 * m)) \div m
        k     == (n % (4 * m)) % m
        cx    == home.x - PatrolOffset
        cy    == home.y - PatrolOffset
    IN  CASE phase = 0 -> <<cx + k * v, cy, 0>>
          [] phase = 1 -> <<cx + side, cy + k * v, 1>>
          [] phase = 2 -> <<cx + side - k * v, cy + side, 2>>
          [] phase = 3 -> <<cx, cy + side - k * v, 3>>

\* C11: a FencingEnemy that starts at the start corner with direction index 0
\* and a speed dividing the side walks right, down, left and up along the
\* sides, turns exactly in the corners, and is back at the start corner with
\* direction index 0 after 4 * (side / speed) updates.
C11_PatrolClosure ==
    \A i \in ElementsOfKind("FencingEnemy") :
        LET e == elements[i]
        IN  (2 * PatrolOffset) % e.speed = 0 =>
                <<e.x, e.y, e.direction>> = PatrolState(e.speed, ticks)

C11_Witness ==
    \E i \in ElementsOfKind("FencingEnemy") :
        /\ elements[i].speed = Px(1)
        /\ ticks = 4 * ((2 * PatrolOffset) \div Px(1))
        /\ elements[i].x = home.x - PatrolOffset
        /\ elements[i].y = home.y - PatrolOffset
        /\ elements[i].direction = 0

\* the position of a RandomWalkEnemy after its step, before the clamping
RandomWalkStepX(e) == e.x + RoundDiv(e.speed * Cos1000(e.direction), 1000)

RandomWalkStepY(e) == e.y + RoundDiv(e.speed * Sin1000(e.direction), 1000)

TouchesTopOrBottom(e) ==
    \/ 2 * RandomWalkStepY(e) + e.size >= 2 * Px(screen_height)
    \/ 2 * RandomWalkStepY(e) - e.size <= 0

PushedBeyondRight(e) == 2 * RandomWalkStepX(e) + e.size > 2 * Px(screen_width)

\* C12 (as stated): an update that would push x beyond screen_width - size/2
\* leaves x = screen_width - size/2 and direction = 180 - direction_old
\* (modulo 360), also when the top or bottom edge is touched.
C12_Original ==
    [][ticks' = ticks + 1 =>
         \A i \in ElementsOfKind("RandomWalkEnemy") :
             PushedBeyondRight(elements[i]) =>
                 /\ 2 * elements'[i].x = 2 * Px(screen_width) - elements[i].size
                 /\ (elements'[i].direction - (180 - elements[i].direction))
                       % 360 = 0]_vars

\* C12 (amended): such an update leaves x = screen_width - size/2; the
\* direction is 180 - direction_old if the top and the bottom edge are not
\* touched in the update, and -(180 - direction_old) if one of them is.
C12_Reflection ==
    [][ticks' = ticks + 1 =>
         \A i \in ElementsOfKind("RandomWalkEnemy") :
             PushedBeyondRight(elements[i]) =>
                 /\ 2 * elements'[i].x = 2 * Px(screen_width) - elements[i].size
                 /\ elements'[i].direction =
                        IF TouchesTopOrBottom(elements[i])
                        THEN -(180 - elements[i].direction)
                        ELSE 180 - elements[i].direction]_vars

\* C12 happens: an enemy of direction 37 has been reflected in the lower
\* right corner
C12_Witness ==
    \E i \in ElementsOfKind("RandomWalkEnemy") :
        /\ ticks = 1
        /\ 2 * elements[i].x = 2 * Px(screen_width) - elements[i].size
        /\ 2 * elements[i].y = 2 * Px(screen_height) - elements[i].size
        /\ elements[i].direction = -(180 - 37)

\* C13: a batch places its RandomWalkEnemy and its ChasingEnemy in the arena.
C13_SpawnInArena ==
    [][batches' = batches + 1 =>
         \A i \in (DOMAIN elements') \ (DOMAIN elements) :
             elements'[i].kind \in {"RandomWalkEnemy", "ChasingEnemy"} =>
                 PositionInArena(elements'[i].x, elements'[i].y)]_vars

\* C14: game.enemies holds exactly the enemies spawned so far, in the order of
\* the spawning, and each of them is in the element list.
C14_EnemiesList ==
    enemies = SubSeq(elements, 4, Len(elements))

\* the points around Home the containment is probed at
HomeProbes ==
    LET ds == {-home.size, -(home.size \div 2) - 1, -(home.size \div 2), 0,
               home.size \div 2, home.size \div 2 + 1, home.size}
    IN  {<<home.x + dx, home.y + dy>> : dx \in ds, dy \in ds}

C15_Box ==
    /\ \A q \in HomeProbes : contains(home, q[1], q[2]) <=> InHome(q[1], q[2])
    /\ contains(home, home.x, home.y)
    /\ ticks >= 1 => (Won <=> InHome(player.x, player.y))

C16_ZeroSize ==
    /\ home.size = 0 =>
          /\ \A q \in HomeProbes : ~contains(home, q[1], q[2])
          /\ ~Won
    /\ \A i \in DOMAIN elements :
          (IsEnemy(elements[i]) /\ elements[i].size = 0) =>
              /\ ~hits_player(elements[i], player)
              /\ ~Lost

\* the update of a ChasingEnemy has not been clamped at an edge of the arena
NotClamped(e) ==
    /\ 2 * e.x # e.size /\ 2 * e.x + e.size # 2 * Px(screen_width)
    /\ 2 * e.y # e.size /\ 2 * e.y + e.size # 2 * Px(screen_height)

\* C17 (as stated): with the player at rest every update of a ChasingEnemy
\* that is not clamped strictly decreases its distance to the player.
C17_Original ==
    [][(ticks' = ticks + 1 /\ player' = player) =>
         \A i \in ElementsOfKind("ChasingEnemy") :
             NotClamped(elements'[i]) =>
                 Dist2(elements'[i], player.x, player.y)
                     < Dist2(elements[i], player.x, player.y)]_vars

\* C17 (amended): the same for a distance greater than half of the speed; an
\* enemy closer to the player steps over the player (at distance 0 it steps
\* along the x axis) and ends at the same or a greater distance.
C17_Monotone ==
    [][(ticks' = ticks + 1 /\ player' = player) =>
         \A i \in ElementsOfKind("ChasingEnemy") :
             LET e  == elements[i]
                 d  == Dist2(e, player.x, player.y)
                 d1 == Dist2(elements'[i], player.x, player.y)
             IN  /\ (NotClamped(elements'[i]) /\ 4 * d > e.speed * e.speed)
                       => d1 < d
                 /\ (NotClamped(elements'[i]) /\ 4 * d = e.speed * e.speed
                       /\ e.y = player.y) => d1 = d
                 /\ d = 0 => d1 = e.speed * e.speed]_vars

\* C17 happens: an enemy that was 1.2 pixels from the player has stepped over
\* the player and is 0.8 pixels from it
C17_Witness ==
    \E i \in ElementsOfKind("ChasingEnemy") :
        /\ ticks = 1
        /\ NotClamped(elements[i])
        /\ elements[i].speed = Px(2)
        /\ Dist2(elements[i], player.x, player.y) = 8 * 8

\* C18: after an update the bounding square of every RandomWalkEnemy,
\* ChasingEnemy and SinEnemy lies within the arena.
C18_WithinArena ==
    ticks >= 1 =>
        \A i \in DOMAIN elements :
            elements[i].kind \in {"RandomWalkEnemy", "ChasingEnemy", "SinEnemy"}
                => WithinArena(elements[i])

\* C18 happens: enemies that started outside of the arena have been updated
C18_Witness ==
    /\ ticks = 1
    /\ \E i \in DOMAIN elements :
          /\ elements[i].kind \in {"RandomWalkEnemy", "ChasingEnemy", "SinEnemy"}
          /\ 2 * elements[i].x + elements[i].size = 2 * Px(screen_width)
          /\ 2 * elements[i].y + elements[i].size = 2 * Px(screen_height)

\* the update of the SinEnemy e clamps x
SinClampsX(e) ==
    \/ 2 * (e.x + e.speed) - e.size < 0
    \/ 2 * (e.x + e.speed) + e.size > 2 * Px(screen_width)

\* C19: an update of a SinEnemy inverts the sign of its speed exactly if it
\* clamps x; the magnitude of the speed never changes.
C19_Bounce ==
    [][ticks' = ticks + 1 =>
         \A i \in ElementsOfKind("SinEnemy") :
             /\ elements'[i].speed = IF SinClampsX(elements[i])
                                     THEN -elements[i].speed
                                     ELSE elements[i].speed
             /\ Abs(elements'[i].speed) = Px(1)]_vars

\* C19 happens: a SinEnemy has bounced at the right edge and, later, has been
\* clamped at the top or bottom edge
C19_Witness ==
    \E i \in ElementsOfKind("SinEnemy") :
        /\ elements[i].speed = -Px(1)
        /\ 2 * elements[i].x + elements[i].size < 2 * Px(screen_width)
        /\ \/ 2 * elements[i].y = elements[i].size
           \/ 2 * elements[i].y + elements[i].size = 2 * Px(screen_height)

DemoOutside(e) == ~PositionInArena(e.x, e.y)

\* C20: every update displaces a DemoEnemy by (+1, +1), so that the enemy
\* spawned at (100, 100) is at (100 + n, 100 + n) after n updates; it is out
\* of the arena as soon as 100 + n exceeds the width or the height, whatever
\* its direction flag, and once out of the arena it stays out.
C20_DemoLeaves ==
    [][ticks' = ticks + 1 =>
         \A i \in ElementsOfKind("DemoEnemy") :
             /\ elements'[i].x = elements[i].x + Px(1)
             /\ elements'[i].y = elements[i].y + Px(1)
             /\ elements'[i].x = Px(100) + Px(ticks')
             /\ elements'[i].y = Px(100) + Px(ticks')
             /\ (100 + ticks' > screen_width \/ 100 + ticks' > screen_height)
                   => DemoOutside(elements'[i])
             /\ DemoOutside(elements[i]) => DemoOutside(elements'[i])]_vars

\* C20 happens: the direction flag has been toggled and the enemy is outside
C20_Witness ==
    \E i \in ElementsOfKind("DemoEnemy") :
        /\ elements[i].direction = -1
        /\ ticks > 100
        /\ DemoOutside(elements[i])

----------------------------------------------------------------------------
(* Properties of the waypoint and of the order inside a tick *)

\* one step of the life of the waypoint: a step that starts with the waypoint
\* inactive leaves the player where it is; only a click makes the waypoint
\* active; only a pass of the animation loop makes it inactive, and then the
\* player is closer than one step to it
C21_Step ==
    /\ ~waypoint.active => player' = player
    /\ (~waypoint.active /\ waypoint'.active) =>
          /\ clicks' = clicks + 1
          /\ ticks' = ticks
    /\ (waypoint.active /\ ~waypoint'.active) =>
          /\ ticks' = ticks + 1
          /\ clicks' = clicks
          /\ waypoint'.x = waypoint.x
          /\ waypoint'.y = waypoint.y
          /\ WaypointDist2' < player.speed * player.speed

\* C21: the waypoint is created inactive; while it is inactive Player.update
\* leaves the player's position unchanged; it becomes active only through a
\* click and inactive only through Player.update, when the player is closer
\* than one step of its speed to it.
C21_WaypointLifecycle == ~waypoint.active /\ [][C21_Step]_vars

\* C21 happens: the waypoint, several steps away, was deactivated on arrival
\* and the animation loop has passed again since, the player staying in place
C21_Witness ==
    /\ clicks = 1
    /\ texts = <<>>
    /\ ~waypoint.active
    /\ NavDist2 > 4 * player.speed * player.speed
    /\ CeilReached(nav.n - 2)
    /\ WaypointDist2 < player.speed * player.speed

\* an enemy strictly contains the player's position
EnemyOnPlayer ==
    \E i \in DOMAIN elements :
        IsEnemy(elements[i]) /\ StrictlyInside(elements[i], player.x, player.y)

\* a pass of the animation loop in which the player's move lands inside Home
EntersHome ==
    /\ ticks' = ticks + 1
    /\ ~InHome(player.x, player.y)
    /\ InHome(player'.x, player'.y)

\* in the pass in which the player enters Home no win is signalled; the pass
\* ends the session as lost exactly if an enemy, moved in the same pass,
\* strictly contains the player's new position; a stopped session keeps its
\* texts
C22_Step ==
    /\ EntersHome =>
          /\ ~Won'
          /\ EnemyOnPlayer' => (Lost' /\ ~running')
          /\ ~EnemyOnPlayer' => (texts' = texts /\ running')
    /\ ~running => (texts' = texts /\ ~running')

\* C22: Player.update tests Home on the position the player has at the start
\* of the pass, before it moves: a player whose move lands inside Home is not
\* declared the winner in that pass, and if an enemy updated later in the pass
\* strictly contains the new position the session ends lost, the player being
\* inside Home.
C22_WinAfterMove == [][C22_Step]_vars

\* C22 happens: the session has ended lost and not won, the player inside Home
C22_Witness ==
    /\ ~running
    /\ Lost
    /\ ~Won
    /\ InHome(player.x, player.y)
    /\ EnemyOnPlayer

====
